---- MODULE Spec2Model ----
(***************************************************************************)
(* Model of the media transcriber front-end:                               *)
(*   - App (orchestration layer): status, isPreparing, fileData,           *)
(*     transcription, errorMsg, includeTimestamps and the handlers         *)
(*     handleFileSelect, handleTranscribe, resetApp;                       *)
(*   - FileUpload.validateAndSelectFile;                                   *)
(*   - geminiService.transcribeMedia (pre-checks, response handling and    *)
(*     failure mapping) and the settlement of fileToBase64.                *)
(*                                                                         *)
(* One step of the model is one task of the JavaScript event loop: the     *)
(* synchronous part of a handler up to its first await that really         *)
(* suspends, or the continuation that runs when a promise settles,         *)
(* together with the React commit (render, effect clean-ups, effects,      *)
(* mounting and unmounting) that follows it.                               *)
(*                                                                         *)
(* Strings the code inspects are sequences of tokens, so that '' is <<>>   *)
(* and includes(needle) is membership of a token.  A nullable value is a   *)
(* sequence of length at most one: NULL is <<>> and Some(x) is <<x>>.      *)
(* The content of a file is not materialised here: a payload is the pair   *)
(* of the file it was encoded from and the length of its base64 string.    *)
(***************************************************************************)
EXTENDS Integers, Sequences, FiniteSets, TLC

VARIABLES
  status,            \* App: AppStatus
  isPreparing,       \* App: boolean
  fileData,          \* App: FileData | null
  transcription,     \* App: string | null
  errorMsg,          \* App: string | null
  includeTimestamps, \* App: boolean
  mediaElement,      \* App: the preview URL the media element was built for | null
  error,             \* FileUpload: string | null (exists while the uploader is mounted)
  apiKey,            \* geminiService: process.env.API_KEY || ''
  encodings,         \* handleFileSelect invocations suspended at await fileToBase64
  requests,          \* handleTranscribe invocations suspended at await transcribeMedia
  created,           \* object URLs returned by URL.createObjectURL
  revoked,           \* object URLs passed to URL.revokeObjectURL
  networkCalls,      \* number of calls of ai.models.generateContent
  clicks,            \* number of invocations of handleTranscribe
  tmCall,            \* a direct call of transcribeMedia (specification SpecTM)
  enc                \* a direct call of fileToBase64 (specification SpecEnc)

appVars == <<status, isPreparing, fileData, transcription, errorMsg>>

vars == <<status, isPreparing, fileData, transcription, errorMsg,
          includeTimestamps, mediaElement, error, apiKey, encodings,
          requests, created, revoked, networkCalls, clicks, tmCall, enc>>

-----------------------------------------------------------------------------
(* Bounds of the model *)

MaxSelects == 3      \* invocations of handleFileSelect in one run
MaxRequests == 3     \* invocations of handleTranscribe in one run

-----------------------------------------------------------------------------
(* Values *)

NULL == <<>>
Some(x) == <<x>>
Val(o) == o[1]

IDLE == "IDLE"
PROCESSING == "PROCESSING"
SUCCESS == "SUCCESS"
ERROR == "ERROR"
AppStatus == {IDLE, PROCESSING, SUCCESS, ERROR}

MAX_SIZE == 500 * 1024 * 1024       \* FileUpload.validateAndSelectFile
LIMIT_BYTES == 500 * 1024 * 1024    \* transcribeMedia

\* Messages of FileUpload
MsgInvalidType == <<"Please upload a valid audio file or MP4 video.">>
MsgFileTooLarge == <<"File is too large. Please upload a file smaller than 500MB.">>

\* Messages of transcribeMedia
MsgApiKeyMissing == <<"API Key is missing. Please check your environment configuration.">>
MsgMediaMissing == <<"Media data is missing or corrupted. Please try re-uploading the file.">>
MsgTooLarge == <<"The file is too large for direct upload (limit: 500MB).">>
MsgEmptyResponse == <<"The AI returned an empty response. This can happen if the media content is not recognized or contains no speech.">>
MsgMediaRejected == <<"The model rejected this media format or the file size was too large for a single request. Try using a standard MP3 or a smaller MP4 clip.">>
MsgServiceDefault == <<"An error occurred while communicating with the Gemini API.">>

\* Messages of fileToBase64
MsgBufferEmpty == <<"Failed to read the file contents (buffer is empty).">>
MsgConvertFailed == <<"Failed to convert file to Base64. The file may be too large for browser memory limits.">>
MsgReadError == <<"Error occurred while reading the file. The file might be locked or inaccessible.">>

\* Messages of App
MsgProcessDefault == <<"Failed to process file. Please try another one.">>
MsgNotReady == <<"File data is not ready. Please try re-selecting the file.">>
MsgUnexpected == <<"An unexpected error occurred during transcription.">>

\* a || b on strings
OrElse(a, b) == IF a # <<>> THEN a ELSE b

\* str.includes(needle), at the granularity of tokens
Includes(str, needle) == \E i \in 1..Len(str) : str[i] = needle

-----------------------------------------------------------------------------
(* Files the user can pick: a name, a MIME type <<type, subtype>> and a size *)

Files ==
  { [name |-> "talk.mp3",  type |-> <<"audio", "mpeg">>, size |-> 5],
    [name |-> "clip.mp4",  type |-> <<"video", "mp4">>,  size |-> 6],
    [name |-> "empty.wav", type |-> <<"audio", "wav">>,  size |-> 0],
    [name |-> "edge.wav",  type |-> <<"audio", "wav">>,  size |-> MAX_SIZE],
    [name |-> "huge.mp4",  type |-> <<"video", "mp4">>,  size |-> MAX_SIZE + 1],
    [name |-> "notes.txt", type |-> <<"text", "plain">>, size |-> 3] }

\* Length of btoa of a binary string of n characters
Base64Length(n) == ((n + 2) \div 3) * 4

\* What fileToBase64 resolves with for a file that is read and converted
\* without failure: btoa of the byte-per-character string of the whole file
PayloadOf(file) == [src |-> file.name, length |-> Base64Length(file.size)]

\* The rejections of fileToBase64
EncodeFailures == {MsgReadError, MsgBufferEmpty, MsgConvertFailed}

\* The transcript of a medium, as the remote service would return it
Transcript(src) == <<"transcript of", src>>

-----------------------------------------------------------------------------
(* geminiService.transcribeMedia *)

Return(v) == [ok |-> TRUE, value |-> v]
Throw(m) == [ok |-> FALSE, value |-> m]

\* transcribeMedia without the credential check
TranscribeMediaPrecheck_NoKeyCheck(key, base64Data) ==
  IF base64Data.length = 0 THEN Some(MsgMediaMissing)
  ELSE IF base64Data.length * 3 > LIMIT_BYTES * 4 THEN Some(MsgTooLarge)
  ELSE NULL

\* transcribeMedia without the check of a missing payload
TranscribeMediaPrecheck_NoEmptyCheck(key, base64Data) ==
  IF key = "" THEN Some(MsgApiKeyMissing)
  ELSE IF base64Data.length * 3 > LIMIT_BYTES * 4 THEN Some(MsgTooLarge)
  ELSE NULL

\* transcribeMedia with byteLength truncated to an integer
TranscribeMediaPrecheck_TruncatedSize(key, base64Data) ==
  IF key = "" THEN Some(MsgApiKeyMissing)
  ELSE IF base64Data.length = 0 THEN Some(MsgMediaMissing)
  ELSE IF (base64Data.length * 3) \div 4 > LIMIT_BYTES THEN Some(MsgTooLarge)
  ELSE NULL

\* transcribeMedia without the size check
TranscribeMediaPrecheck_NoSizeCheck(key, base64Data) ==
  IF key = "" THEN Some(MsgApiKeyMissing)
  ELSE IF base64Data.length = 0 THEN Some(MsgMediaMissing)
  ELSE NULL

\* The checks made before any network activity: NULL when they all pass,
\* otherwise the message of the Error thrown.  byteLength is
\* base64Data.length * 3 / 4 in floating point (exact at these magnitudes),
\* so byteLength > 500 * 1024 * 1024 is compared after multiplying by 4.
TranscribeMediaPrecheck(key, base64Data) ==
  IF key = "" THEN Some(MsgApiKeyMissing)
  ELSE IF base64Data.length = 0 THEN Some(MsgMediaMissing)
  ELSE IF base64Data.length * 3 > LIMIT_BYTES * 4 THEN Some(MsgTooLarge)
  ELSE NULL

\* The argument of ai.models.generateContent
BuildRequest(base64Data, mimeType, withTimestamps) ==
  [ model |-> "gemini-3-flash-preview",
    mimeType |-> mimeType,
    data |-> base64Data,
    kind |-> IF mimeType[1] = "video" THEN "video" ELSE "audio",
    timestampInstruction |-> IF withTimestamps THEN "Include timestamps"
                             ELSE "Do not include any timestamps." ]

\* What the remote service can answer to a request: a response whose text
\* is the transcript, is '' or is absent, or a failure that carries a
\* message (possibly none) and the rest of its JSON form
RemoteErrors ==
  { [message |-> <<"400", "INVALID_ARGUMENT", "Request contains an invalid argument.">>,
     json |-> <<"{}">>],
    [message |-> <<"Invalid video data">>, json |-> <<"{}">>],
    [message |-> <<"503", "UNAVAILABLE">>, json |-> <<"{}">>],
    [message |-> <<>>, json |-> <<"{", "status", "INVALID_ARGUMENT", "}">>],
    [message |-> <<>>, json |-> <<"{}">>] }

RemoteOutcomes(request) ==
  { [kind |-> "response", text |-> Some(Transcript(request.data.src)), error |-> NULL],
    [kind |-> "response", text |-> Some(<<>>), error |-> NULL],
    [kind |-> "response", text |-> NULL, error |-> NULL] }
  \cup { [kind |-> "throw", text |-> NULL, error |-> Some(e)] : e \in RemoteErrors }

\* The catch block of transcribeMedia looking for 'INVALID_ARGUMENT' only
TranscribeMediaCatch_OneNeedle(err) ==
  LET errorStr == OrElse(err.message, err.json) IN
    IF Includes(errorStr, "INVALID_ARGUMENT")
    THEN Throw(MsgMediaRejected)
    ELSE Throw(OrElse(err.message, MsgServiceDefault))

\* The catch block of transcribeMedia
TranscribeMediaCatch(err) ==
  LET errorStr == OrElse(err.message, err.json) IN
    IF Includes(errorStr, "Invalid video data") \/ Includes(errorStr, "INVALID_ARGUMENT")
    THEN Throw(MsgMediaRejected)
    ELSE Throw(OrElse(err.message, MsgServiceDefault))

\* transcribeMedia returning whatever text the response has
TranscribeMediaSettle_NoEmptyCheck(outcome) ==
  IF outcome.kind = "response"
  THEN Return(IF outcome.text = NULL THEN <<>> ELSE Val(outcome.text))
  ELSE TranscribeMediaCatch(Val(outcome.error))

\* The part of transcribeMedia that runs once generateContent has settled
TranscribeMediaSettle(outcome) ==
  IF outcome.kind = "response"
  THEN IF outcome.text = NULL \/ Val(outcome.text) = <<>>
       THEN TranscribeMediaCatch([message |-> MsgEmptyResponse, json |-> <<"{}">>])
       ELSE Return(Val(outcome.text))
  ELSE TranscribeMediaCatch(Val(outcome.error))

-----------------------------------------------------------------------------
(* What React derives from the state when it commits an update *)

\* {!fileData && !isPreparing && <FileUpload/>}
UploaderVisible == fileData = NULL /\ ~isPreparing

\* the card of the selected file, with the remove button, the timestamp
\* toggle and the transcribe button
FileCardVisible == fileData # NULL

\* {transcription && ...}: the result with "Transcribe Another File"
ResultsVisible == transcription # NULL /\ Val(transcription) # <<>>

\* the transcribe button is replaced by a disabled one while PROCESSING and
\* is disabled when SUCCESS
TranscribeEnabled == FileCardVisible /\ status \notin {PROCESSING, SUCCESS}

\* the checkbox is disabled while PROCESSING or SUCCESS
ToggleEnabled == FileCardVisible /\ status \notin {PROCESSING, SUCCESS}

\* A promise has been rejected before its function suspended: the
\* continuation of the awaiting handler runs as a microtask, before any
\* other event is handled
MicrotaskPending == \E r \in requests : r.stage = "rejected"

\* The clean-up of useEffect(..., [fileData]) revokes the preview URL of
\* the file data that is being replaced
RevokeEffect ==
  revoked' = IF fileData' # fileData /\ fileData # NULL
             THEN revoked \cup {Val(fileData).previewUrl}
             ELSE revoked

\* The media player effect builds a media element for new file data
MediaEffect ==
  mediaElement' = IF fileData' # fileData /\ fileData' # NULL
                  THEN Some(Val(fileData').previewUrl)
                  ELSE mediaElement

\* The state of FileUpload is lost when it is unmounted
UploaderEffect ==
  error' = IF fileData' = NULL /\ ~isPreparing' THEN error ELSE NULL

-----------------------------------------------------------------------------
(* Initial state: App just mounted, nothing selected *)

NoCall == [pc |-> "none", base64Data |-> PayloadOf([name |-> "", size |-> 0]),
           mimeType |-> <<"", "">>, includeTimestamps |-> TRUE,
           outcome |-> NULL, result |-> NULL]

\* No direct call of fileToBase64
NoEnc == [pc |-> "none", bytes |-> <<>>, chunk |-> 0, i |-> 0, binary |-> <<>>,
          fault |-> "none", resolveCalls |-> 0, rejectCalls |-> 0,
          state |-> "pending", value |-> <<>>]

Init ==
  /\ status = IDLE
  /\ isPreparing = FALSE
  /\ fileData = NULL
  /\ transcription = NULL
  /\ errorMsg = NULL
  /\ includeTimestamps = TRUE
  /\ mediaElement = NULL
  /\ error = NULL
  /\ apiKey \in {"", "key"}
  /\ encodings = {}
  /\ requests = {}
  /\ created = {}
  /\ revoked = {}
  /\ networkCalls = 0
  /\ clicks = 0
  /\ tmCall = NoCall
  /\ enc = NoEnc

-----------------------------------------------------------------------------
(* App.handleFileSelect *)

\* The handler up to await fileToBase64(file): the state is cleared, a
\* preview URL is created and the read of the file is started
HandleFileSelect(file) ==
  /\ Cardinality(created) < MaxSelects
  /\ status' = IDLE
  /\ isPreparing' = TRUE
  /\ errorMsg' = NULL
  /\ transcription' = NULL
  /\ fileData' = NULL
  /\ LET previewUrl == Cardinality(created) + 1 IN
       /\ created' = created \cup {previewUrl}
       /\ encodings' = encodings \cup
            {[file |-> file, previewUrl |-> previewUrl, abandoned |-> FALSE]}
  /\ RevokeEffect /\ MediaEffect /\ UploaderEffect
  /\ UNCHANGED <<includeTimestamps, apiKey, requests, networkCalls, clicks, tmCall, enc>>

\* fileToBase64 resolved: the file data is attached; finally isPreparing
EncodeResolved(e) ==
  /\ ~MicrotaskPending
  /\ e \in encodings
  /\ encodings' = encodings \ {e}
  /\ fileData' = Some([file |-> e.file, previewUrl |-> e.previewUrl,
                       base64 |-> PayloadOf(e.file)])
  /\ isPreparing' = FALSE
  /\ RevokeEffect /\ MediaEffect /\ UploaderEffect
  /\ UNCHANGED <<status, transcription, errorMsg, includeTimestamps, apiKey,
                 requests, created, networkCalls, clicks, tmCall, enc>>

\* fileToBase64 rejected: the catch block sets the message; finally isPreparing
EncodeRejected(e, message) ==
  /\ ~MicrotaskPending
  /\ e \in encodings
  /\ encodings' = encodings \ {e}
  /\ errorMsg' = Some(OrElse(message, MsgProcessDefault))
  /\ isPreparing' = FALSE
  /\ UNCHANGED <<status, fileData, transcription, includeTimestamps, apiKey,
                 requests, created, networkCalls, clicks, tmCall, enc>>
  /\ RevokeEffect /\ MediaEffect /\ UploaderEffect

-----------------------------------------------------------------------------
(* FileUpload.validateAndSelectFile *)

\* validateAndSelectFile without the size limit
ValidateAndSelectFile_NoSizeCheck(file) ==
  LET isAudio == file.type[1] = "audio"
      isMp4 == file.type = <<"video", "mp4">>
  IN  IF ~isAudio /\ ~isMp4
      THEN /\ error' = Some(MsgInvalidType)
           /\ UNCHANGED <<status, isPreparing, fileData, transcription, errorMsg,
                          includeTimestamps, mediaElement, apiKey, encodings,
                          requests, created, revoked, networkCalls, clicks, tmCall, enc>>
      ELSE HandleFileSelect(file)

ValidateAndSelectFile(file) ==
  LET isAudio == file.type[1] = "audio"
      isMp4 == file.type = <<"video", "mp4">>
  IN  IF ~isAudio /\ ~isMp4
      THEN /\ error' = Some(MsgInvalidType)
           /\ UNCHANGED <<status, isPreparing, fileData, transcription, errorMsg,
                          includeTimestamps, mediaElement, apiKey, encodings,
                          requests, created, revoked, networkCalls, clicks, tmCall, enc>>
      ELSE IF file.size > MAX_SIZE
      THEN /\ error' = Some(MsgFileTooLarge)
           /\ UNCHANGED <<status, isPreparing, fileData, transcription, errorMsg,
                          includeTimestamps, mediaElement, apiKey, encodings,
                          requests, created, revoked, networkCalls, clicks, tmCall, enc>>
      ELSE HandleFileSelect(file)

\* The user drops or picks a file in the uploader
SelectFile(file) ==
  /\ ~MicrotaskPending
  /\ UploaderVisible
  /\ ValidateAndSelectFile(file)

\* The user closes the error of the uploader
DismissError ==
  /\ ~MicrotaskPending
  /\ UploaderVisible
  /\ error # NULL
  /\ error' = NULL
  /\ UNCHANGED <<status, isPreparing, fileData, transcription, errorMsg,
                 includeTimestamps, mediaElement, apiKey, encodings,
                 requests, created, revoked, networkCalls, clicks, tmCall, enc>>

-----------------------------------------------------------------------------
(* App.handleTranscribe *)

\* The handler up to await transcribeMedia(...).  transcribeMedia runs its
\* pre-checks at once: when one fails the promise is already rejected and no
\* request is built, otherwise generateContent is called
HandleTranscribe ==
  /\ clicks < MaxRequests
  /\ clicks' = clicks + 1
  /\ IF fileData = NULL \/ Val(fileData).base64.length = 0
     THEN /\ errorMsg' = Some(MsgNotReady)
          /\ UNCHANGED <<status, requests, networkCalls>>
     ELSE LET base64Data == Val(fileData).base64
              mimeType == Val(fileData).file.type
              rejection == TranscribeMediaPrecheck(apiKey, base64Data)
          IN  /\ status' = PROCESSING
              /\ errorMsg' = NULL
              /\ requests' = requests \cup
                   {[id |-> clicks + 1,
                     stage |-> IF rejection = NULL THEN "remote" ELSE "rejected",
                     rejection |-> rejection,
                     base64Data |-> base64Data,
                     mimeType |-> mimeType,
                     includeTimestamps |-> includeTimestamps,
                     abandoned |-> FALSE]}
              /\ networkCalls' = IF rejection = NULL THEN networkCalls + 1
                                 ELSE networkCalls
  /\ UNCHANGED <<isPreparing, fileData, transcription, includeTimestamps,
                 mediaElement, error, apiKey, encodings, created, revoked, tmCall, enc>>

\* handleTranscribe calling the remote service again when a request fails
TranscribeSettled_Retry(r, result) ==
  /\ r \in requests
  /\ IF result.ok
     THEN /\ requests' = requests \ {r}
          /\ transcription' = Some(result.value)
          /\ status' = SUCCESS
          /\ UNCHANGED <<errorMsg, networkCalls>>
     ELSE IF r.stage = "remote" /\ networkCalls <= MaxRequests
     THEN /\ networkCalls' = networkCalls + 1
          /\ UNCHANGED <<requests, status, errorMsg, transcription>>
     ELSE /\ requests' = requests \ {r}
          /\ status' = ERROR
          /\ errorMsg' = Some(OrElse(result.value, MsgUnexpected))
          /\ UNCHANGED <<transcription, networkCalls>>
  /\ UNCHANGED <<isPreparing, fileData, includeTimestamps, mediaElement, error,
                 apiKey, encodings, created, revoked, clicks, tmCall, enc>>

\* handleTranscribe whose catch block forgets setStatus(AppStatus.ERROR)
TranscribeSettled_NoErrorStatus(r, result) ==
  /\ r \in requests
  /\ requests' = requests \ {r}
  /\ IF result.ok
     THEN /\ transcription' = Some(result.value)
          /\ status' = SUCCESS
          /\ UNCHANGED errorMsg
     ELSE /\ errorMsg' = Some(OrElse(result.value, MsgUnexpected))
          /\ UNCHANGED <<status, transcription>>
  /\ UNCHANGED <<isPreparing, fileData, includeTimestamps, mediaElement, error,
                 apiKey, encodings, created, revoked, networkCalls, clicks, tmCall, enc>>

\* The continuation of handleTranscribe once transcribeMedia has settled
TranscribeSettled(r, result) ==
  /\ r \in requests
  /\ requests' = requests \ {r}
  /\ IF result.ok
     THEN /\ transcription' = Some(result.value)
          /\ status' = SUCCESS
          /\ UNCHANGED errorMsg
     ELSE /\ status' = ERROR
          /\ errorMsg' = Some(OrElse(result.value, MsgUnexpected))
          /\ UNCHANGED transcription
  /\ UNCHANGED <<isPreparing, fileData, includeTimestamps, mediaElement, error,
                 apiKey, encodings, created, revoked, networkCalls, clicks, tmCall, enc>>

\* A pre-check of transcribeMedia threw
TranscribeRejected(r) ==
  /\ r \in requests
  /\ r.stage = "rejected"
  /\ TranscribeSettled(r, Throw(Val(r.rejection)))

\* The request a suspended invocation sent to the remote service
RequestOf(r) == BuildRequest(r.base64Data, r.mimeType, r.includeTimestamps)

\* generateContent settled with one of the answers of the remote service
RemoteSettled(r, outcome) ==
  /\ ~MicrotaskPending
  /\ r \in requests
  /\ r.stage = "remote"
  /\ outcome \in RemoteOutcomes(RequestOf(r))
  /\ TranscribeSettled(r, TranscribeMediaSettle(outcome))

\* The user clicks "Start Transcription"
StartTranscription ==
  /\ ~MicrotaskPending
  /\ TranscribeEnabled
  /\ HandleTranscribe

-----------------------------------------------------------------------------
(* App.resetApp and the timestamp option *)

\* resetApp without setErrorMsg(null)
ResetApp_KeepsError ==
  /\ fileData' = NULL
  /\ transcription' = NULL
  /\ status' = IDLE
  /\ isPreparing' = FALSE
  /\ mediaElement' = NULL
  /\ RevokeEffect /\ UploaderEffect
  /\ encodings' = {[e EXCEPT !.abandoned = TRUE] : e \in encodings}
  /\ requests' = {[r EXCEPT !.abandoned = TRUE] : r \in requests}
  /\ UNCHANGED <<errorMsg, includeTimestamps, apiKey, created, networkCalls, clicks, tmCall, enc>>

\* The operations in flight when the user resets are abandoned; the field
\* abandoned records it and nothing in the program reads it
ResetApp ==
  /\ fileData' = NULL
  /\ transcription' = NULL
  /\ status' = IDLE
  /\ isPreparing' = FALSE
  /\ errorMsg' = NULL
  /\ mediaElement' = NULL
  /\ RevokeEffect /\ UploaderEffect
  /\ encodings' = {[e EXCEPT !.abandoned = TRUE] : e \in encodings}
  /\ requests' = {[r EXCEPT !.abandoned = TRUE] : r \in requests}
  /\ UNCHANGED <<includeTimestamps, apiKey, created, networkCalls, clicks, tmCall, enc>>

\* The user clicks "Remove file" or "Transcribe Another File"
Reset ==
  /\ ~MicrotaskPending
  /\ FileCardVisible \/ ResultsVisible
  /\ ResetApp

\* The user flips "Include Timestamps"
ToggleTimestamps ==
  /\ ~MicrotaskPending
  /\ ToggleEnabled
  /\ includeTimestamps' = ~includeTimestamps
  /\ UNCHANGED <<status, isPreparing, fileData, transcription, errorMsg,
                 mediaElement, error, apiKey, encodings, requests, created,
                 revoked, networkCalls, clicks, tmCall, enc>>

-----------------------------------------------------------------------------
(* The application as the user drives it *)

Next ==
  \/ \E file \in Files : SelectFile(file)
  \/ DismissError
  \/ \E e \in encodings : EncodeResolved(e)
  \/ \E e \in encodings, m \in EncodeFailures : EncodeRejected(e, m)
  \/ StartTranscription
  \/ \E r \in requests : TranscribeRejected(r)
  \/ \E r \in requests : \E o \in RemoteOutcomes(RequestOf(r)) : RemoteSettled(r, o)
  \/ Reset
  \/ ToggleTimestamps

Spec == Init /\ [][Next]_vars

\* The application when every promise that can settle eventually does: the
\* continuation of a rejected promise is a microtask, and the remote
\* service eventually answers or fails
SpecLive ==
  /\ Init /\ [][Next]_vars
  /\ WF_vars(\E r \in requests : TranscribeRejected(r))
  /\ WF_vars(\E r \in requests : \E o \in RemoteOutcomes(RequestOf(r)) : RemoteSettled(r, o))

-----------------------------------------------------------------------------
(* The orchestration layer called directly: the handlers of App invoked  *)
(* at any time, whatever the rendered controls allow, with the files that *)
(* FileUpload hands to onFileSelect                                       *)

AcceptedFiles ==
  {f \in Files : (f.type[1] = "audio" \/ f.type = <<"video", "mp4">>)
                  /\ ~(f.size > MAX_SIZE)}

CallHandleFileSelect(file) == ~MicrotaskPending /\ HandleFileSelect(file)

CallHandleTranscribe == ~MicrotaskPending /\ HandleTranscribe

CallResetApp == ~MicrotaskPending /\ ResetApp

NextApi ==
  \/ \E file \in AcceptedFiles : CallHandleFileSelect(file)
  \/ CallHandleTranscribe
  \/ CallResetApp
  \/ \E e \in encodings : EncodeResolved(e)
  \/ \E e \in encodings, m \in EncodeFailures : EncodeRejected(e, m)
  \/ \E r \in requests : TranscribeRejected(r)
  \/ \E r \in requests : \E o \in RemoteOutcomes(RequestOf(r)) : RemoteSettled(r, o)

SpecApi == Init /\ [][NextApi]_vars

-----------------------------------------------------------------------------
(* transcribeMedia called on its own, with any credential, payload length, *)
(* MIME type and timestamp flag                                            *)

\* Lengths of the payload: empty, short, and around the length whose implied
\* decoded size is the limit (4 * 500 MiB / 3 = 699050666.67)
PayloadLengths ==
  {0, 1, 4, 8, 699050664, 699050666, 699050667, 699050668, 699050672}

MimeTypes == {<<"audio", "mpeg">>, <<"video", "mp4">>, <<"text", "plain">>}

InitTM ==
  /\ status = IDLE
  /\ isPreparing = FALSE
  /\ fileData = NULL
  /\ transcription = NULL
  /\ errorMsg = NULL
  /\ includeTimestamps = TRUE
  /\ mediaElement = NULL
  /\ error = NULL
  /\ apiKey \in {"", "key"}
  /\ encodings = {}
  /\ requests = {}
  /\ created = {}
  /\ revoked = {}
  /\ networkCalls = 0
  /\ clicks = 0
  /\ enc = NoEnc
  /\ tmCall \in { [pc |-> "ready",
                   base64Data |-> [src |-> "payload", length |-> n],
                   mimeType |-> m,
                   includeTimestamps |-> t,
                   outcome |-> NULL,
                   result |-> NULL] :
                  n \in PayloadLengths, m \in MimeTypes, t \in BOOLEAN }

\* transcribeMedia up to its first await: a pre-check throws, or the request
\* is built and generateContent is called
TMCall ==
  /\ tmCall.pc = "ready"
  /\ LET rejection == TranscribeMediaPrecheck(apiKey, tmCall.base64Data) IN
       IF rejection # NULL
       THEN /\ tmCall' = [tmCall EXCEPT !.pc = "thrown", !.result = rejection]
            /\ UNCHANGED networkCalls
       ELSE /\ tmCall' = [tmCall EXCEPT !.pc = "awaiting"]
            /\ networkCalls' = networkCalls + 1
  /\ UNCHANGED <<status, isPreparing, fileData, transcription, errorMsg,
                 includeTimestamps, mediaElement, error, apiKey, encodings,
                 requests, created, revoked, clicks, enc>>

\* generateContent settled: the text is returned or the failure is mapped
TMSettle(outcome) ==
  /\ tmCall.pc = "awaiting"
  /\ outcome \in RemoteOutcomes(BuildRequest(tmCall.base64Data, tmCall.mimeType,
                                             tmCall.includeTimestamps))
  /\ LET result == TranscribeMediaSettle(outcome) IN
       tmCall' = [tmCall EXCEPT !.pc = IF result.ok THEN "returned" ELSE "thrown",
                                !.outcome = Some(outcome),
                                !.result = Some(result.value)]
  /\ UNCHANGED <<status, isPreparing, fileData, transcription, errorMsg,
                 includeTimestamps, mediaElement, error, apiKey, encodings,
                 requests, created, revoked, networkCalls, clicks, enc>>

NextTM ==
  \/ TMCall
  \/ \E o \in RemoteOutcomes(BuildRequest(tmCall.base64Data, tmCall.mimeType,
                                          tmCall.includeTimestamps)) : TMSettle(o)

SpecTM == InitTM /\ [][NextTM]_vars

-----------------------------------------------------------------------------
(* Properties of the orchestration layer *)

\* Transcription requests that have reached the remote service and have not
\* returned yet
InFlight == {r \in requests : r.stage = "remote"}

\* C1: at most one transcription request is in flight at any time within
\* one App session, whatever the user does (select, start, reset) and
\* whenever encodings and remote calls complete.
C1_AtMostOneInFlight == Cardinality(InFlight) <= 1

\* C2: when an operation (encoding or transcription) that was in flight at a
\* reset completes, with success or failure, its result is discarded: the
\* step changes none of status, fileData, transcription, errorMsg and
\* isPreparing.
C2_AbandonedResultDiscarded ==
  [][ ( \/ \E r \in requests : r.abandoned /\ r \notin requests'
        \/ \E e \in encodings : e.abandoned /\ e \notin encodings' )
      => UNCHANGED appVars ]_vars

\* C3: an invocation of handleFileSelect while status is PROCESSING is
\* rejected or ignored: status stays PROCESSING, the requests in flight are
\* untouched and no request is issued.
C3_SelectWhileProcessingIgnored ==
  [][ (status = PROCESSING /\ created' # created)
      => (status' = PROCESSING /\ requests' = requests
          /\ networkCalls' = networkCalls) ]_vars

\* C4: a transcription result is held only when status is SUCCESS.
C4_ResultOnlyInSuccess == transcription # NULL => status = SUCCESS

\* C5: an error message is held only when status is ERROR or IDLE, never
\* while status is PROCESSING or SUCCESS.
C5_ErrorOnlyInErrorOrIdle == errorMsg # NULL => status \in {ERROR, IDLE}

\* C6: Preparing never coexists with another state: whenever isPreparing is
\* true, status is IDLE.
C6_PreparingOnlyInIdle == isPreparing => status = IDLE

\* C7: every preview URL that was created and is no longer the preview of
\* the current file has been revoked, unless the selection that created it
\* is still encoding; a URL that is neither revoked, nor current, nor held
\* by a pending selection can never be revoked any more.
C7_PreviewHandlesReleased ==
  \A u \in created \ revoked :
     \/ fileData # NULL /\ Val(fileData).previewUrl = u
     \/ \E e \in encodings : e.previewUrl = u

-----------------------------------------------------------------------------
(* Properties of transcribeMedia *)

\* transcribeMedia has been called and has run at least up to its first await
Called == tmCall.pc \in {"thrown", "awaiting", "returned"}

\* The ceiling of the decoded size, 500 MiB
Ceiling == 500 * 1024 * 1024

\* The decoded size implied by a payload of n characters, n * 3 / 4, exceeds
\* the ceiling
ImpliedSizeExceedsCeiling(n) == 3 * n > 4 * Ceiling

\* C8: transcribeMedia called with no credential configured fails with the
\* Configuration error and performs no network call, whatever the payload,
\* the MIME type and the timestamp flag are.
C8_NoCredentialFails ==
  (Called /\ apiKey = "")
    => /\ tmCall.pc = "thrown"
       /\ tmCall.result = Some(MsgApiKeyMissing)
       /\ networkCalls = 0

\* a call without credential but with a payload that is otherwise acceptable
\* has thrown
C8_Witness ==
  /\ apiKey = ""
  /\ tmCall.pc = "thrown"
  /\ tmCall.base64Data.length = 8
  /\ tmCall.mimeType = <<"video", "mp4">>
  /\ ~tmCall.includeTimestamps

\* C9: transcribeMedia called with a configured credential and an empty
\* payload fails with the InvalidInput (missing data) error and performs no
\* network call.
C9_EmptyPayloadFails ==
  (Called /\ apiKey # "" /\ tmCall.base64Data.length = 0)
    => /\ tmCall.pc = "thrown"
       /\ tmCall.result = Some(MsgMediaMissing)
       /\ networkCalls = 0

\* a call with a credential and the empty payload has thrown
C9_Witness ==
  /\ apiKey = "key"
  /\ tmCall.base64Data.length = 0
  /\ tmCall.pc = "thrown"
  /\ tmCall.result # NULL

\* C10: transcribeMedia called with a configured credential and a non-empty
\* payload whose implied decoded size exceeds the ceiling fails with the
\* InvalidInput (too large) error and performs no network call; a payload
\* whose implied size is at or below the ceiling is not rejected by the size
\* check: the request is sent.
C10_SizeCeiling ==
  (Called /\ apiKey # "" /\ tmCall.base64Data.length > 0)
    => IF ImpliedSizeExceedsCeiling(tmCall.base64Data.length)
       THEN /\ tmCall.pc = "thrown"
            /\ tmCall.result = Some(MsgTooLarge)
            /\ networkCalls = 0
       ELSE /\ tmCall.result # Some(MsgTooLarge)
            /\ networkCalls = 1

\* the shortest payload whose implied size (524288000.25) exceeds the
\* ceiling has been rejected
C10_Witness ==
  /\ apiKey = "key"
  /\ tmCall.base64Data.length = 699050667
  /\ tmCall.pc = "thrown"
  /\ networkCalls = 0

\* generateContent has settled and transcribeMedia has handled it
Settled == tmCall.outcome # NULL

\* C11: when the remote service returns a response whose text is empty or
\* absent, transcribeMedia does not return: it fails, and the error that
\* reaches the caller, after the function's own catch block, is the
\* EmptyResponse error, neither MediaRejected nor another ServiceError.
C11_EmptyResponseFails ==
  (Settled /\ Val(tmCall.outcome).kind = "response"
   /\ (Val(tmCall.outcome).text = NULL \/ Val(Val(tmCall.outcome).text) = <<>>))
    => /\ tmCall.pc = "thrown"
       /\ tmCall.result = Some(MsgEmptyResponse)

\* a response without text field has been answered and the call has thrown
C11_Witness ==
  /\ Settled
  /\ Val(tmCall.outcome).kind = "response"
  /\ Val(tmCall.outcome).text = NULL
  /\ tmCall.pc = "thrown"

\* The failure's message names an invalid argument or invalid media
IndicatesInvalidMedia(str) ==
  Includes(str, "INVALID_ARGUMENT") \/ Includes(str, "Invalid video data")

\* C12 as stated: when the remote call fails, transcribeMedia fails with
\* MediaRejected if the failure's message contains "INVALID_ARGUMENT" or
\* "Invalid video data", and otherwise with a ServiceError that carries the
\* failure's message unchanged.
C12_FailureMappedByMessage ==
  (Settled /\ Val(tmCall.outcome).kind = "throw")
    => LET message == Val(Val(tmCall.outcome).error).message IN
         /\ tmCall.pc = "thrown"
         /\ tmCall.result = IF IndicatesInvalidMedia(message)
                            THEN Some(MsgMediaRejected)
                            ELSE Some(message)

\* C12 amended: when the remote call fails, transcribeMedia fails with
\* MediaRejected if the failure's message, or the JSON form of the failure
\* when it has no message, contains "INVALID_ARGUMENT" or "Invalid video
\* data"; otherwise it fails with a ServiceError that carries the failure's
\* message unchanged, or the default message when the failure has none.
C12_FailureMapped ==
  (Settled /\ Val(tmCall.outcome).kind = "throw")
    => LET err == Val(Val(tmCall.outcome).error)
           inspected == IF err.message = <<>> THEN err.json ELSE err.message
       IN  /\ tmCall.pc = "thrown"
           /\ tmCall.result =
                IF IndicatesInvalidMedia(inspected) THEN Some(MsgMediaRejected)
                ELSE IF err.message = <<>> THEN Some(MsgServiceDefault)
                ELSE Some(err.message)

\* a failure without message whose JSON form names INVALID_ARGUMENT has been
\* surfaced as MediaRejected
C12_Witness ==
  /\ Settled
  /\ Val(tmCall.outcome).kind = "throw"
  /\ Val(Val(tmCall.outcome).error).message = <<>>
  /\ Includes(Val(Val(tmCall.outcome).error).json, "INVALID_ARGUMENT")
  /\ tmCall.result = Some(MsgMediaRejected)

-----------------------------------------------------------------------------
(* Requests, encodings and their completion *)

\* C13: every outbound request is issued by one user start of
\* transcription, which issues at most one, and a failed attempt is never
\* retried: a step that issues a request issues exactly one and is an
\* invocation of handleTranscribe, so the number of requests never exceeds
\* the number of starts.
C13_OneRequestPerAttempt ==
  [][ /\ networkCalls' <= clicks'
      /\ networkCalls' # networkCalls
           => (networkCalls' = networkCalls + 1 /\ clicks' = clicks + 1) ]_vars

\* one start, its request failed at the remote service, and no other
\* request was issued
C13_Witness ==
  /\ clicks = 1
  /\ networkCalls = 1
  /\ requests = {}
  /\ status = ERROR
  /\ errorMsg = Some(MsgMediaRejected)

\* C14: a request is sent to the remote service only when file data with a
\* non-empty payload is attached and the implied decoded size of the payload
\* is within the ceiling, and the request carries that payload; the remote
\* service never receives a missing, empty or too large payload.
C14_RequestOnlyWithValidPayload ==
  [][ networkCalls' # networkCalls
        => /\ fileData # NULL
           /\ Val(fileData).base64.length > 0
           /\ ~ImpliedSizeExceedsCeiling(Val(fileData).base64.length)
           /\ \E r \in requests' \ requests :
                 r.stage = "remote" /\ r.base64Data = Val(fileData).base64 ]_vars

\* a request is in flight while the request for a file of exactly 500 MiB,
\* whose payload implies 524288001 bytes, has been refused before being sent
C14_Witness ==
  /\ InFlight # {}
  /\ \E r \in requests : r.stage = "rejected" /\ r.rejection = Some(MsgTooLarge)
  /\ networkCalls = 1

\* The encoding e is pending and settles in this step
EncodingCompletes(e) ==
  e \in encodings /\ \A x \in encodings' : x.previewUrl # e.previewUrl

\* C15: when an encoding started by a file selection completes, Preparing
\* ends in Idle: isPreparing is false and status is IDLE, and either the
\* file data of the selected file is attached (success) or no file data is
\* attached and an error message is set (failure).
C15_PreparingEndsInIdle ==
  [][ \A e \in encodings :
        EncodingCompletes(e)
          => /\ ~isPreparing'
             /\ status' = IDLE
             /\ \/ fileData' = Some([file |-> e.file, previewUrl |-> e.previewUrl,
                                     base64 |-> PayloadOf(e.file)])
                \/ fileData' = NULL /\ errorMsg' # NULL ]_vars

\* The request r is pending and settles in this step
RequestCompletes(r) ==
  r \in requests /\ \A x \in requests' : x.id # r.id

\* C16: when the call of a transcription request returns or fails, the step
\* leaves status SUCCESS with the returned text stored, or ERROR with an
\* error message stored; status is PROCESSING only while a request that no
\* reset has abandoned is pending; and, every call settling eventually,
\* PROCESSING is always left.
C16_ProcessingEnds ==
  /\ [][ /\ \A r \in requests :
              RequestCompletes(r)
                => \/ /\ status' = SUCCESS
                      /\ transcription' = Some(Transcript(r.base64Data.src))
                   \/ /\ status' = ERROR
                      /\ errorMsg' # NULL
                      /\ transcription' = transcription
         /\ status' = PROCESSING => \E r \in requests' : ~r.abandoned ]_vars
  /\ (status = PROCESSING) ~> (status # PROCESSING)

\* a request failed and left the application in ERROR with its message
C16_Witness ==
  /\ status = ERROR
  /\ errorMsg = Some(MsgEmptyResponse)
  /\ requests = {}
  /\ clicks = 1

-----------------------------------------------------------------------------
(* File selection *)

\* The file is audio/* or video/mp4 and is not larger than the ceiling
Selectable(file) ==
  /\ file.type[1] = "audio" \/ file.type = <<"video", "mp4">>
  /\ file.size <= Ceiling

\* C17: a file larger than 500 MiB, or whose MIME type is neither audio/*
\* nor video/mp4, is rejected by validateAndSelectFile with an error and is
\* not passed to onFileSelect: the step changes no state of the
\* orchestration layer, and no such file is ever encoding or attached.
C17_InvalidFileRejected ==
  [][ /\ \A f \in Files :
           (~Selectable(f) /\ SelectFile(f))
             => /\ error' \in {Some(MsgInvalidType), Some(MsgFileTooLarge)}
                /\ UNCHANGED <<status, isPreparing, fileData, transcription,
                               errorMsg, includeTimestamps, mediaElement,
                               encodings, requests, created, revoked,
                               networkCalls, clicks>>
      /\ \A e \in encodings' : Selectable(e.file)
      /\ fileData' # NULL => Selectable(Val(fileData').file) ]_vars

\* a file of 500 MiB + 1 byte has been refused and nothing has been started
C17_Witness ==
  /\ error = Some(MsgFileTooLarge)
  /\ encodings = {}
  /\ created = {}
  /\ fileData = NULL
  /\ ~isPreparing

-----------------------------------------------------------------------------
(* geminiService.fileToBase64, on the bytes of a file *)

MaxLen == 5            \* length of the longest buffer of the model

chunk_size == 32768    \* 0x8000

\* Values of the bytes of the model's buffers
ByteValues == {0, 77, 128, 255}

\* The buffers a file can hold
Buffers == UNION { [1..n -> ByteValues] : n \in 0..MaxLen }

\* The chunk sizes the loop is run with: the one of the program, and small
\* ones that split the short buffers of the model into several chunks
ChunkSizes == {1, 2, 3, chunk_size}

Min(a, b) == IF a < b THEN a ELSE b

\* bytes.subarray(begin, end): the elements of index begin .. end - 1, end
\* being clamped to the length
Subarray(bytes, begin, end) == SubSeq(bytes, begin + 1, Min(end, Len(bytes)))

\* String.fromCharCode with 7 bits per character
FromCharCode_Ascii(codes) == [k \in 1..Len(codes) |-> codes[k] % 128]

\* String.fromCharCode.apply(null, codes): one UTF-16 code unit per number
FromCharCode(codes) == [k \in 1..Len(codes) |-> codes[k] % 65536]

Base64Alphabet ==
  << "A", "B", "C", "D", "E", "F", "G", "H", "I", "J", "K", "L", "M", "N", "O", "P",
     "Q", "R", "S", "T", "U", "V", "W", "X", "Y", "Z", "a", "b", "c", "d", "e", "f",
     "g", "h", "i", "j", "k", "l", "m", "n", "o", "p", "q", "r", "s", "t", "u", "v",
     "w", "x", "y", "z", "0", "1", "2", "3", "4", "5", "6", "7", "8", "9", "+", "/" >>

\* btoa without the padding characters
Btoa_NoPadding(str) ==
  LET n == Len(str)
      Octet(k) == IF k <= n THEN str[k] ELSE 0
      Quad(g) ==
        LET v == Octet(3 * g - 2) * 65536 + Octet(3 * g - 1) * 256 + Octet(3 * g)
        IN  << Base64Alphabet[v \div 262144 + 1],
               Base64Alphabet[((v \div 4096) % 64) + 1],
               Base64Alphabet[((v \div 64) % 64) + 1],
               Base64Alphabet[(v % 64) + 1] >>
      kept == 4 * (n \div 3) + (IF n % 3 = 0 THEN 0 ELSE (n % 3) + 1)
  IN  IF n = 0 THEN <<>>
      ELSE [k \in 1..kept |-> Quad((k - 1) \div 4 + 1)[((k - 1) % 4) + 1]]

\* btoa(str) for a string whose characters are all below 256: every three
\* characters give four base64 digits and the last group is padded with '='
Btoa(str) ==
  LET n == Len(str)
      Octet(k) == IF k <= n THEN str[k] ELSE 0
      Quad(g) ==
        LET v == Octet(3 * g - 2) * 65536 + Octet(3 * g - 1) * 256 + Octet(3 * g)
        IN  << Base64Alphabet[v \div 262144 + 1],
               Base64Alphabet[((v \div 4096) % 64) + 1],
               IF 3 * g - 1 > n THEN "=" ELSE Base64Alphabet[((v \div 64) % 64) + 1],
               IF 3 * g > n THEN "=" ELSE Base64Alphabet[(v % 64) + 1] >>
  IN  IF n = 0 THEN <<>>
      ELSE [k \in 1..(4 * ((n + 2) \div 3)) |-> Quad((k - 1) \div 4 + 1)[((k - 1) % 4) + 1]]

\* btoa throws InvalidCharacterError for a character above 255
BtoaThrows(str) == \E k \in 1..Len(str) : str[k] > 255

\* resolve(v) and reject(m) of the promise: the first call settles it
Resolve(e, v) ==
  [e EXCEPT !.resolveCalls = @ + 1,
            !.state = IF e.state = "pending" THEN "fulfilled" ELSE @,
            !.value = IF e.state = "pending" THEN v ELSE @]

Reject(e, m) ==
  [e EXCEPT !.rejectCalls = @ + 1,
            !.state = IF e.state = "pending" THEN "rejected" ELSE @,
            !.value = IF e.state = "pending" THEN m ELSE @]

appState == <<status, isPreparing, fileData, transcription, errorMsg,
              includeTimestamps, mediaElement, error, apiKey, encodings,
              requests, created, revoked, networkCalls, clicks, tmCall>>

InitEnc ==
  /\ status = IDLE
  /\ isPreparing = FALSE
  /\ fileData = NULL
  /\ transcription = NULL
  /\ errorMsg = NULL
  /\ includeTimestamps = TRUE
  /\ mediaElement = NULL
  /\ error = NULL
  /\ apiKey = "key"
  /\ encodings = {}
  /\ requests = {}
  /\ created = {}
  /\ revoked = {}
  /\ networkCalls = 0
  /\ clicks = 0
  /\ tmCall = NoCall
  /\ enc \in { [NoEnc EXCEPT !.pc = "start", !.bytes = b, !.chunk = c] :
               b \in Buffers, c \in ChunkSizes }

\* new Promise(...): the handlers are set and reader.readAsArrayBuffer(file)
\* is called
EncRead ==
  /\ enc.pc = "start"
  /\ enc' = [enc EXCEPT !.pc = "reading"]
  /\ UNCHANGED appState

\* reader.onerror: the file could not be read
EncOnError ==
  /\ enc.pc = "reading"
  /\ enc' = [Reject(enc, MsgReadError) EXCEPT !.pc = "end", !.fault = "readError"]
  /\ UNCHANGED appState

\* reader.onload with no result
EncOnLoadNoBuffer ==
  /\ enc.pc = "reading"
  /\ enc' = [Reject(enc, MsgBufferEmpty) EXCEPT !.pc = "end", !.fault = "noBuffer"]
  /\ UNCHANGED appState

\* reader.onload refusing a buffer of length 0 as well
EncOnLoad_RejectsEmpty ==
  /\ enc.pc = "reading"
  /\ enc' = IF Len(enc.bytes) = 0
            THEN [Reject(enc, MsgBufferEmpty) EXCEPT !.pc = "end"]
            ELSE [enc EXCEPT !.pc = "loop", !.i = 0, !.binary = <<>>]
  /\ UNCHANGED appState

\* reader.onload with the buffer of the file: the loop is entered with
\* binary = '' and i = 0
EncOnLoad ==
  /\ enc.pc = "reading"
  /\ enc' = [enc EXCEPT !.pc = "loop", !.i = 0, !.binary = <<>>]
  /\ UNCHANGED appState

\* An iteration whose chunk runs one byte into the next one
EncChunk_Overlap ==
  /\ enc.pc = "loop"
  /\ enc.i < Len(enc.bytes)
  /\ enc' = [enc EXCEPT
               !.binary = @ \o FromCharCode(Subarray(enc.bytes, enc.i, enc.i + enc.chunk + 1)),
               !.i = @ + enc.chunk]
  /\ UNCHANGED appState

\* One iteration of the loop: the chunk at i is converted and appended
EncChunk ==
  /\ enc.pc = "loop"
  /\ enc.i < Len(enc.bytes)
  /\ enc' = [enc EXCEPT
               !.binary = @ \o FromCharCode(Subarray(enc.bytes, enc.i, enc.i + enc.chunk)),
               !.i = @ + enc.chunk]
  /\ UNCHANGED appState

\* The catch block resolving with what has been converted so far
EncThrow_ResolvesPartial ==
  /\ enc.pc = "loop"
  /\ enc' = [Resolve(enc, Btoa(enc.binary)) EXCEPT !.pc = "end", !.fault = "exception"]
  /\ UNCHANGED appState

\* The conversion of a chunk or btoa throws (limits of the engine): the
\* catch block rejects
EncThrow ==
  /\ enc.pc = "loop"
  /\ enc' = [Reject(enc, MsgConvertFailed) EXCEPT !.pc = "end", !.fault = "exception"]
  /\ UNCHANGED appState

\* The loop is over: btoa(binary) is resolved
EncBtoa ==
  /\ enc.pc = "loop"
  /\ ~(enc.i < Len(enc.bytes))
  /\ enc' = IF BtoaThrows(enc.binary)
            THEN [Reject(enc, MsgConvertFailed) EXCEPT !.pc = "end", !.fault = "exception"]
            ELSE [Resolve(enc, Btoa(enc.binary)) EXCEPT !.pc = "end"]
  /\ UNCHANGED appState

NextEnc ==
  \/ EncRead
  \/ EncOnError
  \/ EncOnLoadNoBuffer
  \/ EncOnLoad
  \/ EncChunk
  \/ EncThrow
  \/ EncBtoa

SpecEnc == InitEnc /\ [][NextEnc]_vars

\* onload runs to completion once it is called: the loop and the call of
\* btoa are synchronous code
SpecEncLive ==
  /\ InitEnc /\ [][NextEnc]_vars
  /\ WF_vars(EncChunk)
  /\ WF_vars(EncBtoa)

-----------------------------------------------------------------------------
(* Properties of fileToBase64 *)

\* The value of a base64 digit
DigitValue(c) ==
  IF c = "=" THEN 0 ELSE (CHOOSE d \in 1..64 : Base64Alphabet[d] = c) - 1

\* Base64 decoding of a padded string: every four digits give three bytes,
\* less one byte per padding character
Atob(str) ==
  LET n == Len(str)
      pads == Cardinality({k \in 1..n : str[k] = "="})
      Triple(g) ==
        LET v == DigitValue(str[4 * g - 3]) * 262144 + DigitValue(str[4 * g - 2]) * 4096
                 + DigitValue(str[4 * g - 1]) * 64 + DigitValue(str[4 * g])
        IN  << v \div 65536, (v \div 256) % 256, v % 256 >>
      total == 3 * (n \div 4) - pads
  IN  IF total = 0 THEN <<>>
      ELSE [k \in 1..total |-> Triple((k - 1) \div 3 + 1)[((k - 1) % 3) + 1]]

C19_RoundTrip ==
  enc.state = "fulfilled" => Atob(enc.value) = enc.bytes

\* a buffer of 3k + 2 bytes with a byte above 127, converted in chunks of 2
\* with a shorter last chunk, has been encoded
C19_Witness ==
  /\ enc.state = "fulfilled"
  /\ Len(enc.bytes) = 5
  /\ enc.chunk = 2
  /\ enc.bytes[5] = 255

\* C20: fileToBase64 settles exactly once; a read error, a missing buffer
\* or an exception during the conversion always gives a rejection with its
\* message; and it resolves only with the encoding of the whole buffer,
\* never with that of the chunks converted so far.
C20_SettlesOnceNeverPartial ==
  /\ enc.pc \in {"start", "reading", "loop"}
       => enc.state = "pending" /\ enc.resolveCalls + enc.rejectCalls = 0
  /\ enc.pc = "end"
       => enc.state # "pending" /\ enc.resolveCalls + enc.rejectCalls = 1
  /\ enc.fault = "readError" => enc.state = "rejected" /\ enc.value = MsgReadError
  /\ enc.fault = "noBuffer" => enc.state = "rejected" /\ enc.value = MsgBufferEmpty
  /\ enc.fault = "exception" => enc.state = "rejected" /\ enc.value = MsgConvertFailed
  /\ enc.state = "fulfilled"
       => /\ enc.fault = "none"
          /\ Len(enc.binary) = Len(enc.bytes)
          /\ Len(enc.value) = ((Len(enc.bytes) + 2) \div 3) * 4

\* the conversion threw after a first chunk had been converted, and the
\* promise is rejected
C20_Witness ==
  /\ enc.pc = "end"
  /\ enc.fault = "exception"
  /\ enc.state = "rejected"
  /\ enc.i > 0
  /\ enc.i < Len(enc.bytes)

-----------------------------------------------------------------------------
(* Properties of resetApp *)

\* A step in which the attached file or the held result is dropped without
\* a new selection: only resetApp makes such a step
ResetStep ==
  /\ created' = created
  /\ \/ fileData # NULL /\ fileData' = NULL
     \/ transcription # NULL /\ transcription' = NULL

\* C21: a user reset from any state leads to Idle: after it status is IDLE,
\* isPreparing is false, no file data, no result and no error message are
\* held, and the timestamp option is unchanged.
C21_ResetLeadsToIdle ==
  [][ResetStep
       => /\ status' = IDLE
          /\ isPreparing' = FALSE
          /\ fileData' = NULL
          /\ transcription' = NULL
          /\ errorMsg' = NULL
          /\ includeTimestamps' = includeTimestamps]_vars

\* the only file ever selected was transcribed, with a result or an error,
\* and the user has reset since: nothing is held and the option is off
C21_Witness ==
  /\ Cardinality(created) = 1
  /\ clicks >= 1
  /\ requests = {}
  /\ encodings = {}
  /\ status = IDLE
  /\ ~isPreparing
  /\ fileData = NULL
  /\ mediaElement = NULL
  /\ transcription = NULL
  /\ errorMsg = NULL
  /\ includeTimestamps = FALSE

\* The string with one character per byte of a buffer
ByteString(bytes) == [k \in 1..Len(bytes) |-> bytes[k]]

\* C22: the chunk loop terminates for every buffer length L and chunk size
\* c > 0; each iteration appends the next c bytes, or the last L mod c
\* bytes when fewer are left, so that every byte is appended exactly once in
\* increasing order and the string handed to btoa is the byte-per-character
\* string of the whole buffer, as with an unchunked conversion.
C22_ChunkLoop ==
  /\ [](enc.pc = "loop"
          => /\ enc.chunk > 0
             /\ enc.i % enc.chunk = 0
             /\ enc.i < Len(enc.bytes) + enc.chunk
             /\ enc.binary = ByteString(SubSeq(enc.bytes, 1, Min(enc.i, Len(enc.bytes)))))
  /\ [][(enc.pc = "loop" /\ enc'.pc = "loop")
          => /\ enc.i < Len(enc.bytes)
             /\ enc'.i = enc.i + enc.chunk
             /\ Len(enc'.binary) - Len(enc.binary)
                  = IF enc.i + enc.chunk <= Len(enc.bytes) THEN enc.chunk
                    ELSE Len(enc.bytes) % enc.chunk]_vars
  /\ [](enc.state = "fulfilled"
          => /\ enc.binary = ByteString(enc.bytes)
             /\ enc.value = Btoa(ByteString(enc.bytes)))
  /\ (enc.pc = "loop") ~> (enc.pc = "end")

\* a buffer of 5 bytes has been converted in chunks of 3, the last chunk
\* holding 5 mod 3 = 2 bytes
C22_Witness ==
  /\ enc.pc = "end"
  /\ enc.state = "fulfilled"
  /\ Len(enc.bytes) = 5
  /\ enc.chunk = 3
  /\ enc.i = 6
  /\ enc.binary = ByteString(enc.bytes)

-----------------------------------------------------------------------------
(* The two enforcements of the size ceiling *)

\* C23: every file that passes the validation of the uploader and is
\* encoded yields a payload that passes the size check of transcribeMedia:
\* the attached payload of a non-empty file is never refused as too large,
\* and no transcription attempt is rejected for its size.
C23_CeilingsAgree ==
  /\ fileData # NULL
       => /\ ~(Val(fileData).file.size > MAX_SIZE)
          /\ TranscribeMediaPrecheck("key", Val(fileData).base64) # Some(MsgTooLarge)
  /\ \A r \in requests : r.rejection # Some(MsgTooLarge)

-----------------------------------------------------------------------------
(* Properties of the PROCESSING state *)

\* C24: whenever status is PROCESSING, file data with a non-empty payload
\* is attached, and so the uploader is not available to the user.
C24_ProcessingHasFileData ==
  status = PROCESSING
    => /\ fileData # NULL
       /\ Val(fileData).base64.length > 0
       /\ ~UploaderVisible

-----------------------------------------------------------------------------
(* The result and the file it is displayed with *)

\* C25: whenever a transcription result is held together with attached
\* file data, the result is the transcript of the medium of that file: the
\* transcript of one file is never displayed alongside another file.
C25_ResultMatchesFile ==
  (transcription # NULL /\ fileData # NULL)
    => Val(transcription) = Transcript(Val(fileData).base64.src)

====
